---- MODULE Spec2Model ----
(***************************************************************************)
(* ProfilingWrapper (src/profiling_wrapper.py): a proxy that forwards      *)
(* attribute access to a wrapped object, times every callable it hands     *)
(* out, and appends the durations to a class-level registry keyed by       *)
(* "<ClassName>.<method>".                                                 *)
(*                                                                         *)
(* Durations are clock ticks (integers); a fraction is a pair <<num, den>>.*)
(***************************************************************************)
EXTENDS Integers, Sequences, FiniteSets, TLC

(* ------------------------------ bounds --------------------------------- *)
MaxCalls     == 2    \* wrapped calls started in one run
MaxDepth     == 2    \* wrapped calls in flight at once (nesting depth)
MaxTime      == 1    \* largest reading of the clock
MaxAttrOps   == 2    \* attribute writes and wrapped calls in one run of AttrSpec

(* ------------------------------ values --------------------------------- *)
\* Python values an attribute can hold: two plain values and one callable.
IntVal(n) == [kind |-> "int", v |-> n]
FuncVal   == [kind |-> "func", v |-> 0]
Values    == {IntVal(0), IntVal(1), FuncVal}

\* getattr() found nothing: the AttributeError the target raises.
Missing == [kind |-> "missing", v |-> 0]

\* The closure __getattr__ returns in place of a callable attribute.
TimedMethod == [kind |-> "timed_method", v |-> 0]

\* An attribute found on the proxy's own class by normal lookup.
ClassAttr == [kind |-> "ProfilingWrapper", v |-> 0]

\* callable(attr)
callable(attr) == attr.kind \in {"func", "timed_method"}

\* The exception a wrapped method raises.
TargetError == "TargetError"

(* ------------------------------ targets -------------------------------- *)
\* Wrapped objects: two instances of SampleClass and one of another class.
Objs == {"a1", "a2", "b1"}

\* obj.__class__.__name__
ClassNameOf(o) == IF o \in {"a1", "a2"} THEN "SampleClass" ELSE "Other"

\* Attribute names used on targets and proxies.
Names == {"fast_method", "counter", "get_statistics", "_note"}

\* Attributes ProfilingWrapper itself defines; normal lookup finds them
\* before __getattr__ is consulted.
ClassAttrNames == {"_profiling_data", "get_profiling_data",
                   "get_all_profiling_data", "clear_profiling_data",
                   "get_statistics"}

\* SampleClass() as the tests build it: fast_method on the class and
\* counter = 0; the other class has the method alone.
InitAttrs(o) ==
    [n \in Names |->
        IF n = "fast_method" THEN FuncVal
        ELSE IF n = "counter" /\ ClassNameOf(o) = "SampleClass" THEN IntVal(0)
        ELSE Missing]

(* ------------------------------ registry ------------------------------- *)
\* f"{self._class_name}.{name}"
Key(class_name, name) == class_name \o "." \o name

\* Keys a caller asks about: those the targets can record under and one
\* that is never recorded.
Keys == {Key(ClassNameOf(o), "fast_method") : o \in Objs}
        \cup {"NonExistent.method"}

\* defaultdict(list)()
EmptyDict == [k \in {} |-> <<>>]

\* defaultdict.__getitem__: a missing key is inserted with list().
DefaultDictGetItem(data, key) ==
    IF key \in DOMAIN data THEN data ELSE (key :> <<>>) @@ data

\* RecordSample with the sample put at the front of the list.
RecordSample_insert_front(data, key, execution_time) ==
    LET d == DefaultDictGetItem(data, key)
    IN  [d EXCEPT ![key] = <<execution_time>> \o @]

\* ProfilingWrapper._profiling_data[key].append(execution_time)
RecordSample(data, key, execution_time) ==
    LET d == DefaultDictGetItem(data, key)
    IN  [d EXCEPT ![key] = Append(@, execution_time)]

\* get_profiling_data without the membership test: the defaultdict inserts
\* the key it is asked for.
get_profiling_data_getitem(data, key) ==
    LET d == DefaultDictGetItem(data, key)
    IN  [data |-> d, outcome |-> "ok", result |-> d[key]]

\* get_profiling_data: [data |-> registry afterwards, result |-> the array]
get_profiling_data(data, key) ==
    IF key \in DOMAIN data
    THEN [data |-> data, outcome |-> "ok", result |-> data[key]]
    ELSE [data |-> data, outcome |-> "ok", result |-> <<>>]

\* get_all_profiling_data
get_all_profiling_data(data) ==
    [data |-> data, outcome |-> "ok",
     result |-> [key \in DOMAIN data |-> data[key]]]

\* None is the omitted key.
None == "None"

\* clear_profiling_data without the membership test.
clear_profiling_data_getitem(data, key) ==
    IF key = None THEN EmptyDict
    ELSE [DefaultDictGetItem(data, key) EXCEPT ![key] = <<>>]

\* clear_profiling_data
clear_profiling_data(data, key) ==
    IF key = None THEN EmptyDict
    ELSE IF key \in DOMAIN data THEN [data EXCEPT ![key] = <<>>]
    ELSE data

(* ----------------------------- statistics ------------------------------ *)
RECURSIVE Gcd(_, _)
Gcd(a, b) == IF b = 0 THEN a ELSE Gcd(b, a % b)

\* A float that is a ratio of tick counts, in lowest terms.
Frac(n, d) == LET g == Gcd(n, d) IN IF g = 0 THEN <<0, 1>> ELSE <<n \div g, d \div g>>

\* np.sum
RECURSIVE np_sum(_)
np_sum(data) == IF data = <<>> THEN 0 ELSE Head(data) + np_sum(Tail(data))

\* np.min
RECURSIVE np_min(_)
np_min(data) ==
    IF Len(data) = 1 THEN Head(data)
    ELSE LET m == np_min(Tail(data)) IN IF Head(data) < m THEN Head(data) ELSE m

\* np.max
RECURSIVE np_max(_)
np_max(data) ==
    IF Len(data) = 1 THEN Head(data)
    ELSE LET m == np_max(Tail(data)) IN IF Head(data) > m THEN Head(data) ELSE m

\* np.mean: sum / n
np_mean(data) == Frac(np_sum(data), Len(data))

\* The sorted copy np.median works on.
RECURSIVE Insert(_, _)
Insert(x, sorted) ==
    IF sorted = <<>> THEN <<x>>
    ELSE IF x <= Head(sorted) THEN <<x>> \o sorted
    ELSE <<Head(sorted)>> \o Insert(x, Tail(sorted))

RECURSIVE np_sort(_)
np_sort(data) == IF data = <<>> THEN <<>> ELSE Insert(Head(data), np_sort(Tail(data)))

\* np.median: middle element, or the mean of the two middle elements.
np_median(data) ==
    LET s == np_sort(data)
        n == Len(s)
    IN  IF n % 2 = 1 THEN Frac(s[(n + 1) \div 2], 1)
        ELSE Frac(s[n \div 2] + s[n \div 2 + 1], 2)

\* np.std with ddof = 0, given as its square, the population variance
\* mean(|x - mean|^2) = (n * sum(x^2) - sum(x)^2) / n^2.
np_std(data) ==
    LET n  == Len(data)
        sq == [i \in 1..n |-> data[i] * data[i]]
    IN  Frac(n * np_sum(sq) - np_sum(data) * np_sum(data), n * n)

\* The record get_statistics returns for no data.
ZeroStatistics ==
    [count |-> 0, mean |-> <<0, 1>>, median |-> <<0, 1>>, std |-> <<0, 1>>,
     min |-> 0, max |-> 0, total |-> 0]

\* Summary with min and max exchanged.
Summary_swapped(arr) ==
    [count |-> Len(arr), mean |-> np_mean(arr), median |-> np_median(arr),
     std |-> np_std(arr), min |-> np_max(arr), max |-> np_min(arr),
     total |-> np_sum(arr)]

\* The record get_statistics builds from a non-empty array.
Summary(arr) ==
    [count |-> Len(arr), mean |-> np_mean(arr), median |-> np_median(arr),
     std |-> np_std(arr), min |-> np_min(arr), max |-> np_max(arr),
     total |-> np_sum(arr)]

\* get_statistics without the empty case: np.min of an empty array raises.
get_statistics_unguarded(data, key) ==
    LET r == get_profiling_data(data, key)
    IN  IF Len(r.result) = 0
        THEN [data |-> r.data, outcome |-> "raise", result |-> "ValueError"]
        ELSE [data |-> r.data, outcome |-> "ok", result |-> Summary(r.result)]

\* get_statistics
get_statistics(data, key) ==
    LET r == get_profiling_data(data, key)
    IN  IF Len(r.result) = 0
        THEN [data |-> r.data, outcome |-> "ok", result |-> ZeroStatistics]
        ELSE [data |-> r.data, outcome |-> "ok", result |-> Summary(r.result)]

(* ------------------------------- proxy --------------------------------- *)
\* name.startswith('_')
startswith_underscore(name) ==
    name \in {"_note", "_profiling_data", "_wrapped_obj", "_class_name"}

\* __init__ keeping the instance, not its class name, for the key.
init_per_instance(obj) ==
    [wrapped_obj |-> obj, class_name |-> obj, own |-> [n \in Names |-> Missing]]

\* __init__: the two fields go through __setattr__ onto the proxy itself;
\* own is the rest of the proxy's instance dictionary.
init(obj) ==
    [wrapped_obj |-> obj, class_name |-> ClassNameOf(obj),
     own |-> [n \in Names |-> Missing]]

\* getattr(self._wrapped_obj, name)
target_getattr(attrs_, proxy, name) == attrs_[proxy.wrapped_obj][name]

\* __getattr__: [outcome, value]
getattr_(attrs_, proxy, name) ==
    LET attr == target_getattr(attrs_, proxy, name)
    IN  IF attr = Missing THEN [outcome |-> "raise", value |-> Missing]
        ELSE IF callable(attr) THEN [outcome |-> "ok", value |-> TimedMethod]
        ELSE [outcome |-> "ok", value |-> attr]

\* proxy.name: the instance dictionary, then the class, then __getattr__.
proxy_read(attrs_, proxy, name) ==
    IF proxy.own[name] # Missing THEN [outcome |-> "ok", value |-> proxy.own[name]]
    ELSE IF name \in ClassAttrNames THEN [outcome |-> "ok", value |-> ClassAttr]
    ELSE getattr_(attrs_, proxy, name)

\* __setattr__: [proxy |-> the proxy afterwards, attrs |-> the targets afterwards]
setattr_(attrs_, proxy, name, value) ==
    IF startswith_underscore(name)
    THEN [proxy |-> [proxy EXCEPT !.own[name] = value], attrs |-> attrs_]
    ELSE [proxy |-> proxy,
          attrs |-> [attrs_ EXCEPT ![proxy.wrapped_obj][name] = value]]

\* time.perf_counter(): the readings a clock at t can give next.
perf_counter(t) == {u \in t..(t + 1) : u <= MaxTime}

\* timed_method appending only under a key the registry already holds.
timed_method_return_if_present(data, key, start_time, end_time) ==
    IF key \in DOMAIN data THEN RecordSample(data, key, end_time - start_time)
    ELSE data

\* timed_method after attr(*args, **kwargs) returned.
timed_method_return(data, key, start_time, end_time) ==
    LET execution_time == end_time - start_time
    IN  RecordSample(data, key, execution_time)

\* timed_method recording in a finally block, failed calls included.
timed_method_raise_finally(data, key, start_time) == RecordSample(data, key, 0)

\* timed_method when attr(*args, **kwargs) raised: lines 53-58 do not run.
timed_method_raise(data, key, start_time) == data

(* ------------------------------- state --------------------------------- *)
VARIABLES
    attrs,           \* attrs[o][name]: what getattr(o, name) finds on target o
    proxies,         \* proxies[o]: the ProfilingWrapper built over o, if any
    profiling_data,  \* ProfilingWrapper._profiling_data
    stack,           \* timed_method activations in flight, innermost last
    clock,           \* the last reading of time.perf_counter()
    ret,             \* the last operation and what it gave its caller
    ncalls,          \* history: wrapped calls started so far
    done,            \* history: per key recorded under since the last
                     \*   clear-all, the calls that returned since the key
                     \*   was last cleared, in the order they returned
    writes           \* history: attribute writes made so far

vars == <<attrs, proxies, profiling_data, stack, clock, ret, ncalls, done, writes>>

\* A target no proxy wraps yet.
NotBuilt == [wrapped_obj |-> "", class_name |-> "", own |-> <<>>]

\* The report of one operation to its caller.
Report(op, proxy, name, key, outcome, result) ==
    [op |-> op, proxy |-> proxy, name |-> name, key |-> key,
     outcome |-> outcome, result |-> result]

Init ==
    /\ attrs = [o \in Objs |-> InitAttrs(o)]
    /\ proxies = [o \in Objs |-> NotBuilt]
    /\ profiling_data = EmptyDict
    /\ stack = <<>>
    /\ clock = 0
    /\ ret = Report("start", "", "", "", "ok", <<>>)
    /\ ncalls = 0
    /\ done = EmptyDict
    /\ writes = 0

Top == stack[Len(stack)]

Proxies == {o \in Objs : proxies[o] # NotBuilt}

\* The samples stored for key, none when the key is absent.
Stored(data, key) == IF key \in DOMAIN data THEN data[key] ELSE <<>>

(* ------------------------------ actions -------------------------------- *)
\* ProfilingWrapper(obj)
Construct(o) ==
    /\ proxies[o] = NotBuilt
    /\ proxies' = [proxies EXCEPT ![o] = init(o)]
    /\ ret' = Report("construct", o, "", "", "ok", <<>>)
    /\ UNCHANGED <<attrs, profiling_data, stack, clock, ncalls, done, writes>>

\* proxy.name(...) up to the point where the target's method is running:
\* the read gives timed_method, which computes the key, reads the clock and
\* calls attr.
BeginCall(p, name) ==
    /\ Len(stack) < MaxDepth
    /\ ncalls < MaxCalls
    /\ proxy_read(attrs, proxies[p], name) = [outcome |-> "ok", value |-> TimedMethod]
    /\ \E start_time \in perf_counter(clock) :
         LET key == Key(proxies[p].class_name, name)
         IN  /\ clock' = start_time
             /\ stack' = Append(stack,
                    [id |-> ncalls + 1, proxy |-> p, name |-> name, key |-> key,
                     start_time |-> start_time, cleared |-> FALSE])
             /\ ret' = Report("call", p, name, key, "running", <<>>)
    /\ ncalls' = ncalls + 1
    /\ UNCHANGED <<attrs, proxies, profiling_data, done, writes>>

\* The innermost target method returns: timed_method reads the clock,
\* appends the duration and returns the result.
ReturnCall ==
    /\ stack # <<>>
    /\ \E end_time \in perf_counter(clock) :
         /\ clock' = end_time
         /\ profiling_data' =
                timed_method_return(profiling_data, Top.key, Top.start_time, end_time)
         /\ done' = (Top.key :> Append(Stored(done, Top.key),
                        [id |-> Top.id, proxy |-> Top.proxy,
                         execution_time |-> end_time - Top.start_time,
                         depth |-> Len(stack), cleared |-> Top.cleared])) @@ done
    /\ ret' = Report("call", Top.proxy, Top.name, Top.key, "ok", <<>>)
    /\ stack' = SubSeq(stack, 1, Len(stack) - 1)
    /\ UNCHANGED <<attrs, proxies, ncalls, writes>>

\* The innermost target method raises: the exception passes through
\* timed_method to the caller.
RaiseCall ==
    /\ stack # <<>>
    /\ profiling_data' = timed_method_raise(profiling_data, Top.key, Top.start_time)
    /\ ret' = Report("call", Top.proxy, Top.name, Top.key, "raise", TargetError)
    /\ stack' = SubSeq(stack, 1, Len(stack) - 1)
    /\ UNCHANGED <<attrs, proxies, clock, ncalls, done, writes>>

\* ProfilingWrapper.clear_profiling_data(key); key = None clears everything.
Clear(key) ==
    /\ profiling_data' = clear_profiling_data(profiling_data, key)
    /\ ret' = Report("clear", "", "", key, "ok", <<>>)
    /\ stack' = [i \in 1..Len(stack) |->
                    IF key = None \/ key = stack[i].key
                    THEN [stack[i] EXCEPT !.cleared = TRUE] ELSE stack[i]]
    /\ done' = IF key = None THEN EmptyDict
               ELSE [k \in DOMAIN done |-> IF k = key THEN <<>> ELSE done[k]]
    /\ UNCHANGED <<attrs, proxies, clock, ncalls, writes>>

\* ProfilingWrapper.get_profiling_data(key)
GetProfilingData(key) ==
    /\ LET r == get_profiling_data(profiling_data, key)
       IN  /\ profiling_data' = r.data
           /\ ret' = Report("get_profiling_data", "", "", key, r.outcome, r.result)
    /\ UNCHANGED <<attrs, proxies, stack, clock, ncalls, done, writes>>

\* ProfilingWrapper.get_all_profiling_data()
GetAllProfilingData ==
    /\ LET r == get_all_profiling_data(profiling_data)
       IN  /\ profiling_data' = r.data
           /\ ret' = Report("get_all_profiling_data", "", "", "", r.outcome, r.result)
    /\ UNCHANGED <<attrs, proxies, stack, clock, ncalls, done, writes>>

\* ProfilingWrapper.get_statistics(key)
GetStatistics(key) ==
    /\ LET r == get_statistics(profiling_data, key)
       IN  /\ profiling_data' = r.data
           /\ ret' = Report("get_statistics", "", "", key, r.outcome, r.result)
    /\ UNCHANGED <<attrs, proxies, stack, clock, ncalls, done, writes>>

\* proxy.name = value
SetAttr(p, name, value) ==
    /\ ncalls + writes < MaxAttrOps
    /\ LET r == setattr_(attrs, proxies[p], name, value)
       IN  /\ proxies' = [proxies EXCEPT ![p] = r.proxy]
           /\ attrs' = r.attrs
    /\ writes' = writes + 1
    /\ ret' = Report("setattr", p, name, "", "ok", value)
    /\ UNCHANGED <<profiling_data, stack, clock, ncalls, done>>

\* target.counter = value, written on the wrapped object directly: by any
\* code that holds the object, its own methods while they run included.
TargetSetAttr(o, value) ==
    /\ ncalls + writes < MaxAttrOps
    /\ attrs' = [attrs EXCEPT ![o]["counter"] = value]
    /\ writes' = writes + 1
    /\ ret' = Report("target_setattr", o, "counter", "", "ok", value)
    /\ UNCHANGED <<proxies, profiling_data, stack, clock, ncalls, done>>

\* proxy.name, read without calling what it gives
GetAttr(p, name) ==
    /\ LET r == proxy_read(attrs, proxies[p], name)
       IN  ret' = Report("getattr", p, name, "", r.outcome, r.value)
    /\ UNCHANGED <<attrs, proxies, profiling_data, stack, clock, ncalls, done, writes>>

\* Names a caller writes through a proxy; the proxy's two bookkeeping
\* fields are set once, by __init__.
WriteNames == {"counter", "get_statistics", "_note"}

RegistryNext ==
    \/ \E o \in Objs : Construct(o)
    \/ \E p \in Proxies, name \in Names : BeginCall(p, name)
    \/ ReturnCall
    \/ RaiseCall
    \/ \E key \in Keys \cup {None} : Clear(key)
    \/ \E key \in Keys : GetProfilingData(key)
    \/ GetAllProfilingData
    \/ \E key \in Keys : GetStatistics(key)

AttrNext ==
    \/ \E p \in Proxies, name \in Names : ncalls + writes < MaxAttrOps /\ BeginCall(p, name)
    \/ ReturnCall
    \/ RaiseCall
    \/ \E p \in Proxies, name \in WriteNames, value \in Values : SetAttr(p, name, value)
    \/ \E o \in Objs, value \in Values : TargetSetAttr(o, value)
    \/ \E p \in Proxies, name \in Names : GetAttr(p, name)

\* The registry and the calls that fill it.
Spec == Init /\ [][RegistryNext]_vars

\* Init after ProfilingWrapper(a1), ProfilingWrapper(a2), ProfilingWrapper(b1).
AttrInit ==
    /\ attrs = [o \in Objs |-> InitAttrs(o)]
    /\ proxies = [o \in Objs |-> init(o)]
    /\ profiling_data = EmptyDict
    /\ stack = <<>>
    /\ clock = 0
    /\ ret = Report("construct", "b1", "", "", "ok", <<>>)
    /\ ncalls = 0
    /\ done = EmptyDict
    /\ writes = 0

\* Attribute forwarding on three proxies, with the calls made through them.
AttrSpec == AttrInit /\ [][AttrNext]_vars

(* ------------------------------ properties ----------------------------- *)
\* Every action reports its operation in ret, so the report of the new
\* state tells which operation a step was.
Did(op) == ret'.op = op
Cleared(key) == Did("clear") /\ ret'.key = key
CallBegan == Did("call") /\ ret'.outcome = "running"
CallReturned == Did("call") /\ ret'.outcome = "ok"
CallRaised == Did("call") /\ ret'.outcome = "raise"

\* The durations of a sequence of returned calls.
Durations(entries) == [i \in 1..Len(entries) |-> entries[i].execution_time]

\* Every returned call still on record, whatever its key.
Returned == UNION {{done[k][i] : i \in 1..Len(done[k])} : k \in DOMAIN done}

\* The registry holds, under every key, exactly the durations of the calls
\* that returned since the key was last cleared, in the order they returned.
RegistryIsReturnLog ==
    /\ DOMAIN profiling_data \subseteq Keys
    /\ \A k \in Keys : Stored(profiling_data, k) = Durations(Stored(done, k))

NonNegative ==
    \A k \in DOMAIN profiling_data :
        \A i \in 1..Len(profiling_data[k]) : profiling_data[k][i] >= 0

\* C1 as stated: under every key the registry holds one sample per
\* successful call since the last clear, each >= 0, and the i-th sample is
\* that of the i-th call in the order the calls were made.
C1_SamplesInCallOrder ==
    /\ RegistryIsReturnLog
    /\ NonNegative
    /\ \A k \in DOMAIN done :
          \A i, j \in 1..Len(done[k]) : i < j => done[k][i].id < done[k][j].id

\* C1 amended: under every key the registry holds one sample per
\* successful call since the last clear, each >= 0, in the order in which
\* the calls returned; a sample precedes that of an earlier call only when
\* its call ran nested inside another wrapped call.
C1_SamplesInReturnOrder ==
    /\ RegistryIsReturnLog
    /\ NonNegative
    /\ \A k \in DOMAIN done :
          \A i, j \in 1..Len(done[k]) :
              (i < j /\ done[k][i].id > done[k][j].id)
                  => done[k][i].depth > done[k][j].depth

\* Two successful calls under one key, with different durations, returned.
C1_Witness ==
    /\ stack = <<>>
    /\ \E k \in DOMAIN profiling_data :
          /\ Len(profiling_data[k]) = 2
          /\ Len(done[k]) = 2
          /\ profiling_data[k][1] # profiling_data[k][2]

\* C2: a wrapped call that raises hands the target's exception to the
\* caller and appends nothing: every key's count and samples are as before,
\* and a key's count is at all times the number of calls that returned
\* under it since it was last cleared, failed calls not among them.
C2_FailedCallRecordsNothing ==
    /\ [](\A k \in Keys :
             get_statistics(profiling_data, k).result.count = Len(Stored(done, k)))
    /\ [][CallRaised =>
             /\ ret'.result = TargetError
             /\ Len(stack') = Len(stack) - 1
             /\ DOMAIN profiling_data' = DOMAIN profiling_data
             /\ \A k \in Keys :
                   /\ get_statistics(profiling_data', k).result.count
                        = get_statistics(profiling_data, k).result.count
                   /\ Stored(profiling_data', k) = Stored(profiling_data, k)]_vars

\* A call has just raised under a key that holds samples.
C2_Witness ==
    /\ ret.op = "call"
    /\ ret.outcome = "raise"
    /\ Stored(profiling_data, ret.key) # <<>>

\* C3: clear() leaves get_all_profiling_data() empty; clear(k) leaves
\* get_profiling_data(k) empty and every other key as it was; clear(k) of
\* an absent key changes nothing; none of them fails.
C3_ClearEffects ==
    [][\A key \in Keys \cup {None} :
          Cleared(key) =>
              /\ ret'.outcome = "ok"
              /\ key = None =>
                    get_all_profiling_data(profiling_data').result = EmptyDict
              /\ key # None =>
                    /\ get_profiling_data(profiling_data', key).result = <<>>
                    /\ DOMAIN profiling_data' = DOMAIN profiling_data
                    /\ \A j \in DOMAIN profiling_data \ {key} :
                          profiling_data'[j] = profiling_data[j]
              /\ (key # None /\ key \notin DOMAIN profiling_data) =>
                    profiling_data' = profiling_data]_vars

\* clear(k) has just emptied k while another key keeps its samples.
C3_Witness ==
    /\ ret.op = "clear"
    /\ ret.key \in DOMAIN profiling_data
    /\ \E j \in DOMAIN profiling_data \ {ret.key} : profiling_data[j] # <<>>

\* C4: for a key without stored samples get_profiling_data gives the empty
\* sequence and get_statistics the all-zero record, and neither raises.
C4_EmptyKeyReads ==
    LET zero == [count |-> 0, mean |-> <<0, 1>>, median |-> <<0, 1>>,
                 std |-> <<0, 1>>, min |-> 0, max |-> 0, total |-> 0]
    IN  /\ \A k \in Keys :
              Stored(profiling_data, k) = <<>> =>
                  /\ get_profiling_data(profiling_data, k).outcome = "ok"
                  /\ get_profiling_data(profiling_data, k).result = <<>>
                  /\ get_statistics(profiling_data, k).outcome = "ok"
                  /\ get_statistics(profiling_data, k).result = zero
        /\ (ret.op = "get_profiling_data" /\ Stored(profiling_data, ret.key) = <<>>)
              => (ret.outcome = "ok" /\ ret.result = <<>>)
        /\ (ret.op = "get_statistics" /\ Stored(profiling_data, ret.key) = <<>>)
              => (ret.outcome = "ok" /\ ret.result = zero)

\* get_statistics has just answered for a key that clear(key) emptied.
C4_Witness ==
    /\ ret.op = "get_statistics"
    /\ ret.key \in DOMAIN profiling_data
    /\ profiling_data[ret.key] = <<>>
    /\ ret.result.count = 0

\* The sum of a sequence, by counting how often each value occurs.
RECURSIVE WeightedSum(_, _)
WeightedSum(values, seq) ==
    IF values = {} THEN 0
    ELSE LET v == CHOOSE x \in values : TRUE
         IN  v * Cardinality({i \in 1..Len(seq) : seq[i] = v})
               + WeightedSum(values \ {v}, seq)

\* C5: for a key with samples, get_statistics' count is the length of
\* get_profiling_data, its total their sum, and its min and max the
\* smallest and the largest sample.
C5_StatisticsAgree ==
    \A k \in Keys :
        Stored(profiling_data, k) # <<>> =>
            LET st  == get_statistics(profiling_data, k).result
                arr == get_profiling_data(profiling_data, k).result
                idx == 1..Len(arr)
            IN  /\ st.count = Len(arr)
                /\ st.total = WeightedSum({arr[i] : i \in idx}, arr)
                /\ st.min <= st.max
                /\ \A i \in idx : st.min <= arr[i] /\ arr[i] <= st.max
                /\ \E i \in idx : arr[i] = st.min
                /\ \E i \in idx : arr[i] = st.max

\* get_statistics has just answered for a key holding two different samples.
C5_Witness ==
    /\ ret.op = "get_statistics"
    /\ ret.result.count = 2
    /\ ret.result.min < ret.result.max
    /\ ret.result.total = ret.result.min + ret.result.max

\* The calls on record that were made through proxy p.
ReturnedThrough(p) == {e \in Returned : e.proxy = p}

\* C6: the two SampleClass proxies record under the one key
\* "SampleClass.fast_method", whose sample count is the number of calls
\* returned through both since the last clear, and the other class records
\* under its own key; constructing a proxy leaves the registry as it is.
C6_ClassLevelKey ==
    /\ [](/\ Len(Stored(profiling_data, "SampleClass.fast_method"))
               = Cardinality(ReturnedThrough("a1")) + Cardinality(ReturnedThrough("a2"))
          /\ Len(Stored(profiling_data, "Other.fast_method"))
               = Cardinality(ReturnedThrough("b1")))
    /\ [][Did("construct") => profiling_data' = profiling_data]_vars

\* One call through each SampleClass proxy is on record under the shared
\* key, and a further proxy has just been constructed.
C6_Witness ==
    /\ ret.op = "construct"
    /\ Len(Stored(profiling_data, "SampleClass.fast_method")) = 2
    /\ ReturnedThrough("a1") # {}
    /\ ReturnedThrough("a2") # {}

\* C7 as stated, reading "yields v" for a callable v as "yields the timed
\* substitute of v": after proxy.x = v with x not underscore-prefixed, the
\* target holds v under x, the proxy stores nothing, and proxy.x reads v.
C7_WriteRoundTrip ==
    [][\A p \in Objs, name \in WriteNames, value \in Values :
          (/\ ~startswith_underscore(name)
           /\ Did("setattr")
           /\ ret'.proxy = p /\ ret'.name = name /\ ret'.result = value) =>
              /\ attrs'[proxies[p].wrapped_obj][name] = value
              /\ proxies'[p] = proxies[p]
              /\ proxy_read(attrs', proxies'[p], name)
                   = [outcome |-> "ok",
                      value |-> IF callable(value) THEN TimedMethod ELSE value]]_vars

\* C8 as stated, for names that are not underscore-prefixed: a name whose
\* value on the target is not callable reads through the proxy as that
\* value, whatever was written before, and a name that neither the target
\* nor ProfilingWrapper has fails with the target's attribute error.
C8_ReadTransparency ==
    \A p \in Proxies, name \in Names :
        LET attr == attrs[proxies[p].wrapped_obj][name]
            read == proxy_read(attrs, proxies[p], name)
        IN  ~startswith_underscore(name) =>
               /\ (attr # Missing /\ ~callable(attr))
                     => read = [outcome |-> "ok", value |-> attr]
               /\ (attr = Missing /\ name \notin ClassAttrNames)
                     => read = [outcome |-> "raise", value |-> Missing]

\* Keys present in the registry and mapped to no samples.
EmptyKeys(data) == {k \in DOMAIN data : data[k] = <<>>}

\* C9: a key is in the registry only if a call was recorded under it since
\* the last clear-all, and maps to no samples only if clear(key) came after
\* its last sample; clear(key) keeps a present key, mapped to nothing; no
\* construction, read, failed call or clear of an absent key adds a key.
C9_KeyPresence ==
    /\ [](/\ DOMAIN profiling_data \subseteq DOMAIN done
          /\ EmptyKeys(profiling_data) \subseteq EmptyKeys(done))
    /\ [][/\ \A key \in Keys :
               Cleared(key) =>
                  /\ DOMAIN get_all_profiling_data(profiling_data').result
                       = DOMAIN profiling_data
                  /\ key \in DOMAIN profiling_data =>
                       get_all_profiling_data(profiling_data').result[key] = <<>>
          /\ (\/ Did("construct")
              \/ Did("get_profiling_data")
              \/ Did("get_all_profiling_data")
              \/ Did("get_statistics")
              \/ CallRaised) => DOMAIN profiling_data' = DOMAIN profiling_data]_vars

\* get_all_profiling_data has just shown a key mapped to no samples.
C9_Witness ==
    /\ ret.op = "get_all_profiling_data"
    /\ \E k \in DOMAIN ret.result : ret.result[k] = <<>>
    /\ \E k \in DOMAIN ret.result : ret.result[k] # <<>>

\* C10: a call in flight has no sample yet and beginning a call appends
\* nothing; the return of a call appends its duration at the end of its
\* key's samples, creating the key when a clear removed it meanwhile; so
\* the registry is the log of returns, nested calls before the calls they
\* ran inside.
C10_AppendOnReturn ==
    /\ [](/\ RegistryIsReturnLog
          /\ \A i \in 1..Len(stack) :
                /\ \A e \in Returned : e.id # stack[i].id
                /\ \A e \in Returned : e.id > stack[i].id => e.depth > i)
    /\ [][/\ CallBegan => profiling_data' = profiling_data
          /\ CallReturned =>
               /\ profiling_data'[Top.key]
                    = Append(Stored(profiling_data, Top.key), clock' - Top.start_time)
               /\ \A k \in DOMAIN profiling_data' \ {Top.key} :
                     k \in DOMAIN profiling_data
                        /\ profiling_data'[k] = profiling_data[k]]_vars

\* Call A was in flight when the registry was cleared, call B ran inside A,
\* and both samples are stored, B's first.
C10_Witness ==
    /\ stack = <<>>
    /\ \E k \in DOMAIN done :
          /\ Len(done[k]) = 2
          /\ done[k][1].id > done[k][2].id
          /\ done[k][2].cleared
          /\ Len(profiling_data[k]) = 2

====
